---- MODULE Spec2Model ----
(***************************************************************************)
(* Credit ledger, subscription lifecycle, credit gating and the Supabase   *)
(* query proxy of the Vibe code-generation platform, as state machines.    *)
(*                                                                         *)
(* Spec      : the User table and the request handlers / library calls     *)
(*             that read and write it (src/lib/usage.ts, the user          *)
(*             initialisation utilities, credit-validator.ts and           *)
(*             POST /api/projects/start-workflow), run by concurrent       *)
(*             server invocations that interleave at every await.          *)
(* GateSpec  : the gated requests next to the calls that move the balance. *)
(* ProxySpec : the Integration row, the two query-proxy routes             *)
(*             (/api/db/query, /api/integrations/supabase/query) and the   *)
(*             routes that select, deselect and report the project.        *)
(***************************************************************************)
EXTENDS Integers, Sequences, FiniteSets, TLC

\* ------------------------------------------------------------------------
\* Program constants (src/lib/usage.ts)
\* ------------------------------------------------------------------------
TOKENS_PER_CREDIT == 2000
FREE_USER_CREDITS == 5
PRO_USER_CREDITS == 100

\* ------------------------------------------------------------------------
\* Bounds of the model
\* ------------------------------------------------------------------------
\* Concurrent server invocations.
NumProcs == 2
\* Library calls / requests started in one behaviour.
MaxOps == 2
\* The clock, in days.
MaxTime == 2

Procs == 1 .. NumProcs
UserIds == {"u1"}
\* An absent optional timestamp (subscriptionEndsAt: null).
NoDate == -1

\* Stored balances an account of the free tier starts a behaviour with:
\* the column default and balances reached from it by earlier consumes.
InitCredits == {0, 1, 3, FREE_USER_CREDITS}
\* durationDays arguments of upgradeUserToPro / renewSubscription.
DurationDays == {1, 2}
\* bonusCredits arguments of grantBonusCredits (a plain number in the code).
BonusAmounts == {-1, 0, 2}

VARIABLES
    users,        \* the User table: id -> row (NoRow if absent)
    now,          \* the clock (days)
    proc,         \* per invocation: the call it runs, its position in it,
                  \* its arguments, its result
    opsStarted,   \* number of calls started (bounds the behaviour)
    hist,         \* history: balance and counters at the last non-consume
                  \* write of each account, and successful consumes since
    integ,        \* the Integration row (provider SUPABASE) of the user
    query,        \* the query-proxy request in flight, or the last one
    manage,       \* the integration request in flight, or the last one
    extract       \* the run of extractDatabaseQueries: its input, its
                  \* position in the pattern loop, the queries found

vars == <<users, now, proc, opsStarted, hist, integ, query, manage, extract>>

\* The part of the state the ledger's calls never touch.
proxyVars == <<integ, query, manage, extract>>

\* The user every invocation is authenticated as (auth() in the code).
Uid == "u1"

\* ------------------------------------------------------------------------
\* Rows and the writes the code issues
\* ------------------------------------------------------------------------
\* Column defaults of the credit migration.
DefaultRow(t) ==
    [exists |-> TRUE,
     credits |-> FREE_USER_CREDITS, isSubscribed |-> FALSE,
     subscriptionTier |-> "free", subscriptionEndsAt |-> NoDate,
     totalTokensUsed |-> 0, monthlyTokensUsed |-> 0, monthlyResetDate |-> t]

\* No row with this id (findUnique returns null, update throws).
NoRow == [DefaultRow(0) EXCEPT !.exists = FALSE]

\* initializeUserCredits: the create branch of the upsert.
CreateData(isPro, t) ==
    [DefaultRow(t) EXCEPT
        !.credits = IF isPro THEN PRO_USER_CREDITS ELSE FREE_USER_CREDITS,
        !.isSubscribed = isPro,
        !.subscriptionTier = IF isPro THEN "pro" ELSE "free"]

UpsertUpdate_Reset(row) == [row EXCEPT !.credits = FREE_USER_CREDITS]
\* initializeUserCredits: the update branch of the upsert (update: {}).
UpsertUpdate(row) == row

HasCredits_AtLeastZero(row) == row.credits >= 0
\* checkUserCredits: hasEnoughCredits.
HasCredits(row) == row.credits > 0

ConsumeGuard_OffByOne(row) == row.credits < 0
\* consumeCredits: the check that throws "Insufficient credits".
ConsumeGuard(row) == row.credits <= 0

ConsumeData_NoMonthly(row) ==
    [row EXCEPT !.credits = @ - 1,
                !.totalTokensUsed = @ + TOKENS_PER_CREDIT]
\* consumeCredits: the data of prisma.user.update (atomic in the store).
ConsumeData(row) ==
    [row EXCEPT !.credits = @ - 1,
                !.totalTokensUsed = @ + TOKENS_PER_CREDIT,
                !.monthlyTokensUsed = @ + TOKENS_PER_CREDIT]

ResetData_ClearsTotal(row, t) ==
    [row EXCEPT !.monthlyTokensUsed = 0, !.totalTokensUsed = 0,
                !.monthlyResetDate = t]
\* resetMonthlyTokens.
ResetData(row, t) ==
    [row EXCEPT !.monthlyTokensUsed = 0, !.monthlyResetDate = t]

UpgradeData_Additive(row, t, d) ==
    [row EXCEPT !.credits = @ + 100, !.isSubscribed = TRUE,
                !.subscriptionTier = "pro", !.subscriptionEndsAt = t + d]
\* upgradeUserToPro: expiryDate = today + durationDays, credits: 100.
UpgradeData(row, t, d) ==
    [row EXCEPT !.credits = 100, !.isSubscribed = TRUE,
                !.subscriptionTier = "pro", !.subscriptionEndsAt = t + d]

\* downgradeUserToFree.
DowngradeData(row) ==
    [row EXCEPT !.credits = 5, !.isSubscribed = FALSE,
                !.subscriptionTier = "free", !.subscriptionEndsAt = NoDate]

RenewData_Refill(row, t, d) ==
    [row EXCEPT !.subscriptionEndsAt = t + d, !.credits = PRO_USER_CREDITS]
\* renewSubscription.
RenewData(row, t, d) == [row EXCEPT !.subscriptionEndsAt = t + d]

\* grantBonusCredits: credits: { increment: bonusCredits }.
GrantData(row, bonus) == [row EXCEPT !.credits = @ + bonus]

HasExpired_Inclusive(row, t) ==
    /\ row.isSubscribed
    /\ row.subscriptionEndsAt # NoDate
    /\ row.subscriptionEndsAt <= t
\* checkSubscriptionExpiry: the early return and hasExpired.
HasExpired(row, t) ==
    /\ row.isSubscribed
    /\ row.subscriptionEndsAt # NoDate
    /\ row.subscriptionEndsAt < t

Exists(u) == users[u].exists

\* ------------------------------------------------------------------------
\* Invocations
\* ------------------------------------------------------------------------
\* call: the stored balance when the invocation's consumeCredits was called
\* (void once a write other than a consume touched the account).
NoCall == [valid |-> FALSE, credits |-> 0]

IdleRec ==
    [op |-> "none", seq |-> 0, pc |-> "idle", outcome |-> "none", arg |-> 0,
     consumed |-> FALSE, started |-> FALSE, ret |-> 0, call |-> NoCall]

\* An invocation that has not started, or whose call has returned: its
\* result stays readable until it starts the next call.
Idle(p) == proc[p].pc \in {"idle", "done"}

CanBegin(p) == Idle(p) /\ opsStarted < MaxOps

At(p, o, at) == proc[p].op = o /\ proc[p].pc = at

\* The record of a call that begins now: seq is its number in the order
\* the calls were made.
Running(o, at, a) ==
    [IdleRec EXCEPT !.op = o, !.seq = opsStarted + 1, !.pc = at, !.arg = a]

Done(rec, res) == [rec EXCEPT !.pc = "done", !.outcome = res]

Set(p, rec) ==
    /\ proc' = [proc EXCEPT ![p] = rec]
    /\ UNCHANGED proxyVars

Began == opsStarted' = opsStarted + 1

\* ------------------------------------------------------------------------
\* History bookkeeping
\* ------------------------------------------------------------------------
Snapshot(row) ==
    [exists |-> row.exists, credits |-> row.credits,
     totalTokensUsed |-> row.totalTokensUsed,
     monthlyTokensUsed |-> row.monthlyTokensUsed]

\* A write other than the consume update, made by p, which continues as
\* rec: it restarts the consume history of the account.
OtherWrite(p, rec, row) ==
    /\ users' = [users EXCEPT ![Uid] = row]
    /\ hist' = [hist EXCEPT ![Uid] = [base |-> Snapshot(row), n |-> 0]]
    /\ proc' = [q \in Procs |->
                  [(IF q = p THEN rec ELSE proc[q]) EXCEPT !.call = NoCall]]
    /\ UNCHANGED proxyVars

\* An update of a row that does not exist throws; nothing is written.
NotFound(p, rec) ==
    /\ Set(p, Done(rec, "notfound"))
    /\ UNCHANGED <<users, hist>>

Tick ==
    /\ now < MaxTime
    /\ now' = now + 1
    /\ UNCHANGED <<users, proc, opsStarted, hist, integ, query, manage, extract>>

\* ------------------------------------------------------------------------
\* consumeCredits (src/lib/usage.ts)
\* ------------------------------------------------------------------------
\* The call is made: the invocation is about to await auth().
EnterConsume(rec) ==
    [rec EXCEPT !.pc = "consume_find",
                !.call = IF Exists(Uid)
                           THEN [valid |-> TRUE, credits |-> users[Uid].credits]
                           ELSE NoCall]

\* How the errors consumeCredits throws reach the caller of the library.
LibErrors ==
    [notfound |-> "notfound", insufficient |-> "insufficient",
     store |-> "storeError"]

consumeCredits_call(p) ==
    /\ CanBegin(p)
    /\ Began
    /\ \E authed \in BOOLEAN :
         IF authed
           THEN Set(p, EnterConsume(Running("consumeCredits", "idle", 0)))
           ELSE Set(p, Done(Running("consumeCredits", "idle", 0),
                            "unauthenticated"))
    /\ UNCHANGED <<users, now, hist>>

\* findUnique returns; "User not found" / "Insufficient credits" are thrown
\* here, otherwise the update is issued.
ConsumeFind(p, onFail) ==
    /\ proc[p].pc = "consume_find"
    /\ IF ~Exists(Uid)
         THEN Set(p, Done(proc[p], onFail.notfound))
         ELSE IF ConsumeGuard(users[Uid])
                THEN Set(p, Done(proc[p], onFail.insufficient))
                ELSE Set(p, [proc[p] EXCEPT !.pc = "consume_update"])
    /\ UNCHANGED <<users, now, opsStarted, hist>>

FailedWrite_Partial(row) == [row EXCEPT !.credits = @ - 1]

\* The row after an update statement that failed: the statement is one
\* write, so nothing of it is stored.
FailedWrite(row) == row

\* prisma.user.update with decrement / increment: one atomic statement on
\* the row as stored at the moment of the write; it throws if the row is
\* gone or the store fails. On success consumeCredits returns and the
\* caller goes on at `next`.
ConsumeUpdate(p, onFail, next) ==
    /\ proc[p].pc = "consume_update"
    /\ IF Exists(Uid)
         THEN \E stored \in BOOLEAN :
              IF stored
                THEN /\ users' = [users EXCEPT ![Uid] = ConsumeData(@)]
                     /\ hist' = [hist EXCEPT ![Uid].n = @ + 1]
                     /\ LET rec == [proc[p] EXCEPT
                                      !.consumed = TRUE,
                                      !.ret = ConsumeData(users[Uid]).credits]
                        IN  IF next = "done"
                              THEN Set(p, Done(rec, "ok"))
                              ELSE Set(p, [rec EXCEPT !.pc = next])
                ELSE /\ users' = [users EXCEPT ![Uid] = FailedWrite(@)]
                     /\ Set(p, Done(proc[p], onFail.store))
                     /\ UNCHANGED hist
         ELSE /\ Set(p, Done(proc[p], onFail.notfound))
              /\ UNCHANGED <<users, hist>>
    /\ UNCHANGED <<now, opsStarted>>

consumeCredits_find(p) ==
    /\ proc[p].op = "consumeCredits"
    /\ ConsumeFind(p, LibErrors)

consumeCredits_update(p) ==
    /\ proc[p].op = "consumeCredits"
    /\ ConsumeUpdate(p, LibErrors, "done")

\* ------------------------------------------------------------------------
\* checkUserCredits, getUsageStatus (src/lib/usage.ts): one read each
\* ------------------------------------------------------------------------
checkUserCredits(p) ==
    /\ CanBegin(p)
    /\ Began
    /\ LET rec == Running("checkUserCredits", "idle", 0)
       IN  IF ~Exists(Uid)
             THEN Set(p, Done(rec, "notfound"))
             ELSE Set(p, Done([rec EXCEPT !.ret = users[Uid].credits],
                              IF HasCredits(users[Uid])
                                THEN "hasCredits" ELSE "noCredits"))
    /\ UNCHANGED <<users, now, hist>>

getUsageStatus(p) ==
    /\ CanBegin(p)
    /\ Began
    /\ LET rec == Running("getUsageStatus", "idle", 0)
       IN  IF ~Exists(Uid)
             THEN Set(p, Done(rec, "notfound"))
             ELSE Set(p, Done([rec EXCEPT !.ret = users[Uid].credits], "ok"))
    /\ UNCHANGED <<users, now, hist>>

\* ------------------------------------------------------------------------
\* resetMonthlyTokens, initializeUserCredits (src/lib/usage.ts)
\* ------------------------------------------------------------------------
resetMonthlyTokens(p) ==
    /\ CanBegin(p)
    /\ Began
    /\ LET rec == Running("resetMonthlyTokens", "idle", 0)
       IN  IF Exists(Uid)
             THEN OtherWrite(p, Done(rec, "ok"), ResetData(users[Uid], now))
             ELSE NotFound(p, rec)
    /\ UNCHANGED now

\* prisma.user.upsert: one statement; update: {} on an existing row.
Upsert(isPro) ==
    IF Exists(Uid)
      THEN /\ users' = [users EXCEPT ![Uid] = UpsertUpdate(@)]
           /\ UNCHANGED hist
      ELSE /\ users' = [users EXCEPT ![Uid] = CreateData(isPro, now)]
           /\ hist' = [hist EXCEPT ![Uid] =
                         [base |-> Snapshot(CreateData(isPro, now)), n |-> 0]]

initializeUserCredits(p) ==
    /\ CanBegin(p)
    /\ Began
    /\ \E isPro \in BOOLEAN :
         /\ Upsert(isPro)
         /\ Set(p, Done(Running("initializeUserCredits", "idle",
                                IF isPro THEN 1 ELSE 0), "ok"))
    /\ UNCHANGED now

\* ------------------------------------------------------------------------
\* initializeUserOnSignup (user initialisation utilities)
\* ------------------------------------------------------------------------
\* findUnique: an existing user is returned as is.
initializeUserOnSignup_find(p) ==
    /\ CanBegin(p)
    /\ Began
    /\ \E isPro \in BOOLEAN :
         LET rec == Running("initializeUserOnSignup", "signup_upsert",
                            IF isPro THEN 1 ELSE 0)
         IN  IF Exists(Uid)
               THEN Set(p, Done(rec, "ok"))
               ELSE Set(p, rec)
    /\ UNCHANGED <<users, now, hist>>

\* await initializeUserCredits(userId, isPro)
initializeUserOnSignup_upsert(p) ==
    /\ At(p, "initializeUserOnSignup", "signup_upsert")
    /\ Upsert(proc[p].arg = 1)
    /\ Set(p, [proc[p] EXCEPT !.pc = "signup_refind"])
    /\ UNCHANGED <<now, opsStarted>>

\* the second findUnique, whose row is returned
initializeUserOnSignup_refind(p) ==
    /\ At(p, "initializeUserOnSignup", "signup_refind")
    /\ Set(p, Done(proc[p], IF Exists(Uid) THEN "ok" ELSE "notfound"))
    /\ UNCHANGED <<users, now, opsStarted, hist>>

\* ------------------------------------------------------------------------
\* Subscription lifecycle (user initialisation utilities)
\* ------------------------------------------------------------------------
upgradeUserToPro(p) ==
    /\ CanBegin(p)
    /\ Began
    /\ \E d \in DurationDays :
         LET rec == Running("upgradeUserToPro", "idle", d)
         IN  IF Exists(Uid)
               THEN OtherWrite(p, Done(rec, "ok"),
                               UpgradeData(users[Uid], now, d))
               ELSE NotFound(p, rec)
    /\ UNCHANGED now

downgradeUserToFree(p) ==
    /\ CanBegin(p)
    /\ Began
    /\ LET rec == Running("downgradeUserToFree", "idle", 0)
       IN  IF Exists(Uid)
             THEN OtherWrite(p, Done(rec, "ok"), DowngradeData(users[Uid]))
             ELSE NotFound(p, rec)
    /\ UNCHANGED now

renewSubscription(p) ==
    /\ CanBegin(p)
    /\ Began
    /\ \E d \in DurationDays :
         LET rec == Running("renewSubscription", "idle", d)
         IN  IF Exists(Uid)
               THEN OtherWrite(p, Done(rec, "ok"),
                               RenewData(users[Uid], now, d))
               ELSE NotFound(p, rec)
    /\ UNCHANGED now

grantBonusCredits(p) ==
    /\ CanBegin(p)
    /\ Began
    /\ \E b \in BonusAmounts :
         LET rec == Running("grantBonusCredits", "idle", b)
         IN  IF Exists(Uid)
               THEN OtherWrite(p, Done(rec, "ok"), GrantData(users[Uid], b))
               ELSE NotFound(p, rec)
    /\ UNCHANGED now

\* findUnique, then the decision on the row it returned: no downgrade is
\* due (false is returned), or downgradeUserToFree is called.
checkSubscriptionExpiry_find(p) ==
    /\ CanBegin(p)
    /\ Began
    /\ LET rec == Running("checkSubscriptionExpiry", "expiry_downgrade", 0)
       IN  IF Exists(Uid) /\ HasExpired(users[Uid], now)
             THEN Set(p, rec)
             ELSE Set(p, Done(rec, "false"))
    /\ UNCHANGED <<users, now, hist>>

\* await downgradeUserToFree(userId); return hasExpired
checkSubscriptionExpiry_downgrade(p) ==
    /\ At(p, "checkSubscriptionExpiry", "expiry_downgrade")
    /\ IF Exists(Uid)
         THEN OtherWrite(p, Done(proc[p], "true"), DowngradeData(users[Uid]))
         ELSE NotFound(p, proc[p])
    /\ UNCHANGED <<now, opsStarted>>

\* ------------------------------------------------------------------------
\* POST /api/projects/start-workflow
\* ------------------------------------------------------------------------
\* What the request looks like before the credit steps: the session, the
\* body and the project lookup.
StartRequests == {"unauthenticated", "invalidJson", "noProjectId",
                  "notOwner", "valid"}

EarlyStatus(req) ==
    CASE req = "unauthenticated" -> "http401"
      [] req = "invalidJson" -> "http400"
      [] req = "noProjectId" -> "http400"
      [] req = "notOwner" -> "http403"

\* Every error thrown inside the try block is answered with status 500.
RouteErrors ==
    [notfound |-> "http500", insufficient |-> "http500", store |-> "http500"]

startWorkflow_request(p) ==
    /\ CanBegin(p)
    /\ Began
    /\ \E req \in StartRequests :
         LET rec == Running("startWorkflow", "sw_check", 0)
         IN  IF req = "valid"
               THEN Set(p, rec)
               ELSE Set(p, Done(rec, EarlyStatus(req)))
    /\ UNCHANGED <<users, now, hist>>

\* Step 1: checkUserCredits(); 429 without credits.
startWorkflow_check(p) ==
    /\ At(p, "startWorkflow", "sw_check")
    /\ IF ~Exists(Uid)
         THEN Set(p, Done(proc[p], RouteErrors.notfound))
         ELSE IF HasCredits(users[Uid])
                THEN Set(p, [proc[p] EXCEPT !.pc = "sw_prompt"])
                ELSE Set(p, Done([proc[p] EXCEPT !.ret = users[Uid].credits],
                                 "http429"))
    /\ UNCHANGED <<users, now, opsStarted, hist>>

startWorkflow_prompt_SkipConsume(p) ==
    /\ At(p, "startWorkflow", "sw_prompt")
    /\ \E hasPrompt \in BOOLEAN :
         IF hasPrompt
           THEN Set(p, [proc[p] EXCEPT !.pc = "sw_send"])
           ELSE Set(p, Done(proc[p], "http500"))
    /\ UNCHANGED <<users, now, opsStarted, hist>>
\* The first user message is fetched; without one the answer is 500.
\* Step 2: consumeCredits() is called.
startWorkflow_prompt(p) ==
    /\ At(p, "startWorkflow", "sw_prompt")
    /\ \E hasPrompt \in BOOLEAN :
         IF hasPrompt
           THEN Set(p, EnterConsume(proc[p]))
           ELSE Set(p, Done(proc[p], "http500"))
    /\ UNCHANGED <<users, now, opsStarted, hist>>

startWorkflow_find(p) ==
    /\ proc[p].op = "startWorkflow"
    /\ ConsumeFind(p, RouteErrors)

startWorkflow_update(p) ==
    /\ proc[p].op = "startWorkflow"
    /\ ConsumeUpdate(p, RouteErrors, "sw_send")

\* Step 3: inngest.send; it resolves (200) or throws (500).
startWorkflow_send(p) ==
    /\ At(p, "startWorkflow", "sw_send")
    /\ \E sent \in BOOLEAN :
         IF sent
           THEN Set(p, Done([proc[p] EXCEPT !.started = TRUE], "http200"))
           ELSE Set(p, Done(proc[p], "http500"))
    /\ UNCHANGED <<users, now, opsStarted, hist>>

\* ------------------------------------------------------------------------
\* validateCredits(action) (src/lib/credit-validator.ts)
\* ------------------------------------------------------------------------
\* validateAndConsumeCredits: auth()
validateCredits_call(p) ==
    /\ CanBegin(p)
    /\ Began
    /\ \E authed \in BOOLEAN :
         LET rec == Running("validateCredits", "vc_check", 0)
         IN  IF authed
               THEN Set(p, rec)
               ELSE Set(p, Done(rec, "unauthenticated"))
    /\ UNCHANGED <<users, now, hist>>

\* checkUserCredits(); its message is thrown without credits, otherwise
\* consumeCredits() is called.
validateCredits_check(p) ==
    /\ At(p, "validateCredits", "vc_check")
    /\ IF ~Exists(Uid)
         THEN Set(p, Done(proc[p], LibErrors.notfound))
         ELSE IF HasCredits(users[Uid])
                THEN Set(p, EnterConsume(proc[p]))
                ELSE Set(p, Done(proc[p], LibErrors.insufficient))
    /\ UNCHANGED <<users, now, opsStarted, hist>>

validateCredits_find(p) ==
    /\ proc[p].op = "validateCredits"
    /\ ConsumeFind(p, LibErrors)

validateCredits_update(p) ==
    /\ proc[p].op = "validateCredits"
    /\ ConsumeUpdate(p, LibErrors, "vc_action")

\* await action(): it runs, and resolves or throws; the error is rethrown.
validateCredits_action(p) ==
    /\ At(p, "validateCredits", "vc_action")
    /\ \E resolved \in BOOLEAN :
         Set(p, Done([proc[p] EXCEPT !.started = TRUE],
                     IF resolved THEN "ok" ELSE "actionThrew"))
    /\ UNCHANGED <<users, now, opsStarted, hist>>

\* ------------------------------------------------------------------------
\* The Integration row (provider SUPABASE) of the authenticated user
\* ------------------------------------------------------------------------
\* null (and every other falsy value) of an optional column or field.
Null == "null"

Truthy(x) == x # Null

Projects == {"p1", "p2"}

AccessToken == "oauth_access_token"

\* What the provider's Management API holds for each project.
ApiUrlOf == [p1 |-> "https://p1.supabase.co", p2 |-> "https://p2.supabase.co"]
AnonKeyOf == [p1 |-> "anon_key_p1", p2 |-> "anon_key_p2"]
ServiceRoleOf == [p1 |-> "service_role_key_p1", p2 |-> "service_role_key_p2"]
DbUrlOf == [p1 |-> "postgres://p1", p2 |-> "postgres://p2"]

NoIntegration ==
    [exists |-> FALSE, accessToken |-> Null, expiresAt |-> NoDate,
     selectedProjectId |-> Null, selectedProjectName |-> Null,
     supabaseProjectRef |-> Null, supabaseApiUrl |-> Null,
     supabaseAnonKey |-> Null, supabaseServiceRole |-> Null,
     supabaseDbUrl |-> Null]

\* The OAuth callback's upsert: the create branch on a missing row, the
\* update branch (tokens only) on an existing one.
CallbackUpsert(row, exp) ==
    [(IF row.exists THEN row ELSE NoIntegration) EXCEPT
        !.exists = TRUE, !.accessToken = AccessToken, !.expiresAt = exp]

NoCredentials ==
    [projectRef |-> Null, apiUrl |-> Null, anonKey |-> Null,
     serviceRoleKey |-> Null, dbUrl |-> Null]

\* fetchSupabaseProjectCredentials, on a 2xx answer of the api-keys
\* endpoint: the keys found in the list (null when the list has no such
\* entry) and the connection string when that second call succeeded.
fetchSupabaseProjectCredentials(projectRef, hasAnon, hasService, hasDb) ==
    [projectRef |-> projectRef,
     apiUrl |-> ApiUrlOf[projectRef],
     anonKey |-> IF hasAnon THEN AnonKeyOf[projectRef] ELSE Null,
     serviceRoleKey |-> IF hasService THEN ServiceRoleOf[projectRef] ELSE Null,
     dbUrl |-> IF hasDb THEN DbUrlOf[projectRef] ELSE Null]

\* upsertSupabaseCredentialsForUser: the data of its update.
SelectData(row, creds, projectName) ==
    [row EXCEPT !.selectedProjectId = creds.projectRef,
                !.selectedProjectName = projectName,
                !.supabaseProjectRef = creds.projectRef,
                !.supabaseApiUrl = creds.apiUrl,
                !.supabaseAnonKey = creds.anonKey,
                !.supabaseServiceRole = creds.serviceRoleKey,
                !.supabaseDbUrl = creds.dbUrl]

\* POST deselect: the data of its update.
DeselectData(row) ==
    [row EXCEPT !.selectedProjectId = Null, !.selectedProjectName = Null]

getSelectedSupabaseProjectId_StoredRef(row) ==
    IF row.exists /\ Truthy(row.supabaseProjectRef)
    THEN row.supabaseProjectRef ELSE Null

\* getSelectedSupabaseProjectId: integration?.selectedProjectId || null.
getSelectedSupabaseProjectId(row) ==
    IF row.exists /\ Truthy(row.selectedProjectId)
    THEN row.selectedProjectId ELSE Null

\* new Date() > expiresAt, for a row with an expiry.
TokenExpired(row, t) == row.expiresAt # NoDate /\ t > row.expiresAt

\* ------------------------------------------------------------------------
\* Responses
\* ------------------------------------------------------------------------
\* status 0: no response yet. body: the (field, value) pairs of the JSON
\* body that carry data (stored values, provider data, error text); the
\* fixed messages are in error.
NoResponse == [status |-> 0, error |-> "none", body |-> {}]

Response(status, error, body) ==
    [status |-> status, error |-> error, body |-> body]

\* The text of a thrown error: the values it quotes.
Details(field, quoted) == {<<field, v>> : v \in quoted}

\* ------------------------------------------------------------------------
\* Query payloads
\* ------------------------------------------------------------------------
\* A name is a sequence of characters, each standing for its class:
\* "a" a letter, "1" a digit, "_" the underscore, ";" anything else.
Letters == {"a"}
Digits == {"1"}
IsIdentifier(s) ==
    /\ Len(s) >= 1
    /\ s[1] \in Letters \cup {"_"}
    /\ \A i \in 2 .. Len(s) : s[i] \in Letters \cup Digits \cup {"_"}

\* encodeURIComponent: letters, digits and "_" stay, the rest is escaped.
encodeURIComponent(s) ==
    [i \in 1 .. Len(s) |->
        IF s[i] \in Letters \cup Digits \cup {"_"} THEN s[i] ELSE "%3B"]

IdA == <<"a">>
IdB == <<"_", "a", "1">>
BadDigit == <<"1", "a">>
BadSemi == <<"a", ";">>

ValueKinds == {"null", "string", "number", "boolean", "object", "array"}

Entry(k, v) == [key |-> k, kind |-> v]
NoMap == [present |-> FALSE, entries |-> <<>>]
Map(es) == [present |-> TRUE, entries |-> es]
NoList == [present |-> FALSE, items |-> <<>>]
List(xs) == [present |-> TRUE, items |-> xs]
NoNumber == [present |-> FALSE, n |-> 0]
Num(n) == [present |-> TRUE, n |-> n]
NoOrder == [present |-> FALSE, column |-> <<>>, direction |-> "asc"]
Order(c, d) == [present |-> TRUE, column |-> c, direction |-> d]

MaxLimit == 1000

Tables == {IdA, BadDigit, BadSemi, <<>>}
FilterSamples ==
    {NoMap, Map(<<>>), Map(<<Entry(IdA, "number")>>),
     Map(<<Entry(BadSemi, "string")>>), Map(<<Entry(IdA, "object")>>),
     Map(<<Entry(IdA, "null"), Entry(IdB, "array")>>)}
DataSamples ==
    {NoMap, Map(<<>>), Map(<<Entry(IdA, "string")>>),
     Map(<<Entry(BadDigit, "number")>>)}
ListSamples ==
    {NoList, List(<<>>), List(<<IdA, IdB>>), List(<<IdA, BadSemi>>)}
OrderSamples ==
    {NoOrder, Order(IdA, "desc"), Order(BadSemi, "asc"), Order(IdA, "up")}
LimitSamples == {NoNumber, Num(0), Num(1), Num(MaxLimit), Num(MaxLimit + 1)}
OffsetSamples == {NoNumber, Num(0), Num(-1), Num(2)}
Operations == {"select", "query", "insert", "update", "delete", "drop"}

BaseQuery(op) ==
    [operation |-> op, table |-> IdA, select |-> NoList,
     filters |-> Map(<<Entry(IdA, "number")>>),
     data |-> Map(<<Entry(IdA, "string")>>), returning |-> NoList,
     orderBy |-> NoOrder, limit |-> NoNumber, offset |-> NoNumber]

\* The request bodies the model sends: every operation with every table,
\* with every filters / data pair, and the optional fields of the
\* operations that read them.
Payloads ==
    {[BaseQuery(op) EXCEPT !.table = t] : op \in Operations, t \in Tables}
    \cup {[BaseQuery(op) EXCEPT !.filters = f, !.data = d] :
            op \in Operations, f \in FilterSamples, d \in DataSamples}
    \cup {[BaseQuery(op) EXCEPT !.select = s, !.limit = l] :
            op \in {"select", "query"}, s \in ListSamples,
            l \in LimitSamples}
    \cup {[BaseQuery("select") EXCEPT !.orderBy = o, !.offset = f] :
            o \in OrderSamples, f \in OffsetSamples}
    \cup {[BaseQuery(op) EXCEPT !.returning = r] :
            op \in {"insert", "update", "delete"}, r \in ListSamples}

AllIdentifiers(names) == \A i \in 1 .. Len(names) : IsIdentifier(names[i])

ValidList(l) == l.present => AllIdentifiers(l.items)

\* QueryPayloadSchema: the variant of the discriminated union for the
\* operation (fields the variant does not declare are stripped unread).
QueryPayloadSchema(q) ==
    CASE q.operation = "select" ->
            /\ IsIdentifier(q.table)
            /\ ValidList(q.select)
            /\ q.limit.present => (q.limit.n > 0 /\ q.limit.n <= MaxLimit)
            /\ q.offset.present => q.offset.n >= 0
            /\ q.orderBy.present =>
                (/\ IsIdentifier(q.orderBy.column)
                 /\ q.orderBy.direction \in {"asc", "desc"})
      [] q.operation = "insert" ->
            /\ IsIdentifier(q.table)
            /\ q.data.present
            /\ ValidList(q.returning)
      [] q.operation = "update" ->
            /\ IsIdentifier(q.table)
            /\ q.data.present
            /\ q.filters.present
            /\ ValidList(q.returning)
      [] q.operation = "delete" ->
            /\ IsIdentifier(q.table)
            /\ q.filters.present
            /\ ValidList(q.returning)
      [] OTHER -> FALSE

\* ------------------------------------------------------------------------
\* Outbound calls to the provider's REST endpoint
\* ------------------------------------------------------------------------
Star == <<"*">>

NoFetch ==
    [valid |-> FALSE, method |-> "none", host |-> Null, table |-> <<>>,
     select |-> <<>>, filters |-> <<>>, order |-> NoOrder,
     limit |-> NoNumber, offset |-> NoNumber, auth |-> Null,
     body |-> NoMap]

Scalar(e) == e.kind \in {"null", "string", "number", "boolean"}

\* key=is.null for null, key=eq.value for the rest.
Pred(e) ==
    [key |-> e.key, pred |-> IF e.kind = "null" THEN "is.null" ELSE "eq"]

Preds(es) == [i \in 1 .. Len(es) |-> Pred(es[i])]

Columns(l) == IF l.present /\ Len(l.items) > 0 THEN l.items ELSE <<>>

executeSelect(apiUrl, accessToken, q) ==
    [NoFetch EXCEPT
        !.valid = TRUE, !.method = "GET", !.host = apiUrl,
        !.table = q.table,
        !.select = IF Columns(q.select) = <<>> THEN <<Star>>
                   ELSE Columns(q.select),
        !.filters = IF q.filters.present
                    THEN Preds(SelectSeq(q.filters.entries, Scalar))
                    ELSE <<>>,
        !.order = q.orderBy,
        !.limit = IF q.limit.present /\ q.limit.n # 0 THEN q.limit
                  ELSE NoNumber,
        !.offset = q.offset,
        !.auth = accessToken]

executeInsert(apiUrl, accessToken, q) ==
    [NoFetch EXCEPT
        !.valid = TRUE, !.method = "POST", !.host = apiUrl,
        !.table = q.table, !.select = Columns(q.returning),
        !.auth = accessToken, !.body = q.data]

executeUpdate(apiUrl, accessToken, q) ==
    [NoFetch EXCEPT
        !.valid = TRUE, !.method = "PATCH", !.host = apiUrl,
        !.table = q.table, !.filters = Preds(q.filters.entries),
        !.select = Columns(q.returning),
        !.auth = accessToken, !.body = q.data]

executeDelete(apiUrl, accessToken, q) ==
    [NoFetch EXCEPT
        !.valid = TRUE, !.method = "DELETE", !.host = apiUrl,
        !.table = q.table, !.filters = Preds(q.filters.entries),
        !.select = Columns(q.returning),
        !.auth = accessToken]

executeSupabaseQuery(apiUrl, accessToken, q) ==
    CASE q.operation = "select" -> executeSelect(apiUrl, accessToken, q)
      [] q.operation = "insert" -> executeInsert(apiUrl, accessToken, q)
      [] q.operation = "update" -> executeUpdate(apiUrl, accessToken, q)
      [] q.operation = "delete" -> executeDelete(apiUrl, accessToken, q)

\* buildQueryParams of the integrations route: every filter becomes
\* key=eq.value; names are escaped when the parameters are serialised.
buildQueryParams(q) ==
    [select |-> [i \in 1 .. Len(Columns(q.select)) |->
                    encodeURIComponent(Columns(q.select)[i])],
     limit |-> IF q.limit.present /\ q.limit.n # 0 THEN q.limit
               ELSE NoNumber,
     offset |-> IF q.offset.present /\ q.offset.n # 0 THEN q.offset
                ELSE NoNumber,
     filters |-> IF q.filters.present
                 THEN [i \in 1 .. Len(q.filters.entries) |->
                        [key |-> encodeURIComponent(q.filters.entries[i].key),
                         pred |-> "eq"]]
                 ELSE <<>>]

\* data ?? {}
DataOrEmpty(q) == IF q.data.present THEN q.data ELSE Map(<<>>)

\* The fetch of the integrations route for a supported operation.
supabaseQueryFetch(row, q) ==
    LET params == buildQueryParams(q)
        base == [NoFetch EXCEPT
                    !.valid = TRUE, !.host = row.supabaseApiUrl,
                    !.table = encodeURIComponent(q.table),
                    !.auth = row.supabaseServiceRole]
        url == [base EXCEPT
                    !.select = params.select, !.limit = params.limit,
                    !.offset = params.offset, !.filters = params.filters]
    IN  CASE q.operation = "query" -> [url EXCEPT !.method = "GET"]
          [] q.operation = "insert" ->
                [base EXCEPT !.method = "POST", !.body = DataOrEmpty(q)]
          [] q.operation = "update" ->
                [url EXCEPT !.method = "PATCH", !.body = DataOrEmpty(q)]
          [] q.operation = "delete" -> [url EXCEPT !.method = "DELETE"]

NoFilters(q) == ~q.filters.present \/ Len(q.filters.entries) = 0

\* What the provider does with a call: it answers with a status, or the
\* connection fails and fetch throws.
ProviderStatuses == {200, 404, 503}
ProviderOutcomes ==
    {[threw |-> TRUE, status |-> 0]}
    \cup {[threw |-> FALSE, status |-> s] : s \in ProviderStatuses}

IsOk(status) == status >= 200 /\ status <= 299

\* ------------------------------------------------------------------------
\* The two request slots: a query-proxy request and an integration request
\* ------------------------------------------------------------------------
QueryIdle ==
    [endpoint |-> "none", pc |-> "idle", json |-> TRUE,
     payload |-> BaseQuery("select"), projectId |-> Null,
     sent |-> NoFetch, resp |-> NoResponse]

QueryRequests ==
    {[authed |-> FALSE, json |-> TRUE, payload |-> BaseQuery("select")],
     [authed |-> TRUE, json |-> FALSE, payload |-> BaseQuery("select")]}
    \cup {[authed |-> TRUE, json |-> TRUE, payload |-> q] : q \in Payloads}

CanBeginQuery == query.pc \in {"idle", "done"} /\ opsStarted < MaxOps

\* A slot whose handler has returned keeps the response only.
Answer(rec, response) ==
    [QueryIdle EXCEPT !.endpoint = rec.endpoint, !.pc = "done",
                      !.resp = response]

\* auth() and getSelectedSupabaseProject(), common to both query routes.
QueryEnter(endpoint, r) ==
    LET rec == [QueryIdle EXCEPT !.endpoint = endpoint, !.json = r.json,
                                 !.payload = r.payload]
        projectId == getSelectedSupabaseProjectId(integ)
    IN  IF ~r.authed
        THEN Answer(rec, Response(401, "Unauthorized", {}))
        ELSE IF ~Truthy(projectId)
        THEN Answer(rec, Response(400, "No Supabase project selected", {}))
        ELSE [rec EXCEPT !.pc = "integration", !.projectId = projectId]

QueryAt(endpoint, at) == query.endpoint = endpoint /\ query.pc = at

\* ---- POST /api/db/query ----
dbQuery_request ==
    /\ CanBeginQuery
    /\ \E r \in QueryRequests : query' = QueryEnter("db", r)
    /\ Began
    /\ UNCHANGED <<extract, users, now, proc, hist, integ, manage>>

dbQuery_integration ==
    /\ QueryAt("db", "integration")
    /\ query' =
        IF ~integ.exists
        THEN Answer(query, Response(404, "Supabase integration not found", {}))
        ELSE IF ~Truthy(integ.accessToken)
        THEN Answer(query, Response(401, "Access token missing", {}))
        ELSE IF TokenExpired(integ, now)
        THEN Answer(query, Response(401, "Access token expired", {}))
        ELSE IF ~query.json
        THEN Answer(query, Response(400, "Invalid JSON in request body", {}))
        ELSE IF ~QueryPayloadSchema(query.payload)
        THEN Answer(query, Response(400, "Invalid query payload", {}))
        ELSE [query EXCEPT
                !.pc = "fetch",
                !.sent = executeSupabaseQuery(ApiUrlOf[query.projectId],
                                              integ.accessToken,
                                              query.payload)]
    /\ UNCHANGED <<extract, users, now, proc, opsStarted, hist, integ, manage>>

\* The result of the executor and the response the handler shapes from it.
dbQueryResponse(o) ==
    IF o.threw
    THEN Response(400, "Failed to execute query",
                  Details("details", {"fetch failed"}))
    ELSE IF ~IsOk(o.status)
    THEN Response(o.status, "Supabase API error",
                  Details("error", {"provider status text"}))
    ELSE Response(200, "none",
                  {<<"operation", "request operation">>,
                   <<"table", "request table">>,
                   <<"data", "provider rows">>})

dbQuery_response ==
    /\ QueryAt("db", "fetch")
    /\ \E o \in ProviderOutcomes : query' = Answer(query, dbQueryResponse(o))
    /\ UNCHANGED <<extract, users, now, proc, opsStarted, hist, integ, manage>>

\* ---- POST /api/integrations/supabase/query ----
supabaseQuery_request ==
    /\ CanBeginQuery
    /\ \E r \in QueryRequests : query' = QueryEnter("integration", r)
    /\ Began
    /\ UNCHANGED <<extract, users, now, proc, hist, integ, manage>>

supabaseQuery_integration ==
    /\ QueryAt("integration", "integration")
    /\ LET q == query.payload
       IN query' =
        IF ~integ.exists
        THEN Answer(query, Response(404, "Supabase integration not found", {}))
        ELSE IF ~Truthy(integ.accessToken)
        THEN Answer(query, Response(401, "Access token expired or missing", {}))
        ELSE IF ~Truthy(integ.supabaseServiceRole)
                \/ ~Truthy(integ.supabaseApiUrl)
        THEN Answer(query, Response(400, "Supabase project credentials are missing", {}))
        ELSE IF ~query.json
        THEN Answer(query, Response(400, "Invalid request body", {}))
        ELSE IF Len(q.table) = 0
        THEN Answer(query, Response(400, "Missing required fields", {}))
        ELSE IF q.operation \in {"update", "delete"} /\ NoFilters(q)
        THEN Answer(query, Response(400, "Requires filters", {}))
        ELSE IF q.operation \notin {"query", "insert", "update", "delete"}
        THEN Answer(query, Response(400, "Unsupported operation",
                                   Details("error", {"request operation"})))
        ELSE [query EXCEPT !.pc = "fetch",
                           !.sent = supabaseQueryFetch(integ, q)]
    /\ UNCHANGED <<extract, users, now, proc, opsStarted, hist, integ, manage>>

supabaseQueryResponse(projectId, o) ==
    IF o.threw
    THEN Response(500, "Internal server error", {})
    ELSE IF ~IsOk(o.status)
    THEN Response(o.status, "Supabase request failed",
                  Details("details", {"provider error body"}))
    ELSE Response(200, "none",
                  {<<"operation", "request operation">>,
                   <<"table", "request table">>,
                   <<"projectId", projectId>>,
                   <<"data", "provider rows">>})

supabaseQuery_response ==
    /\ QueryAt("integration", "fetch")
    /\ \E o \in ProviderOutcomes :
        query' = Answer(query, supabaseQueryResponse(query.projectId, o))
    /\ UNCHANGED <<extract, users, now, proc, opsStarted, hist, integ, manage>>

\* ---- The integration requests ----
NoName == [kind |-> "absent", text |-> Null]
ProjectNames ==
    {NoName, [kind |-> "string", text |-> "Shop"],
     [kind |-> "number", text |-> "7"]}

ManageIdle ==
    [op |-> "none", pc |-> "idle", projectId |-> Null,
     projectName |-> NoName, creds |-> NoCredentials, resp |-> NoResponse]

CanBeginManage == manage.pc \in {"idle", "done"} /\ opsStarted < MaxOps

ManageAt(o, at) == manage.op = o /\ manage.pc = at

Entered(o) == [ManageIdle EXCEPT !.op = o]

Reply(rec, response) ==
    [ManageIdle EXCEPT !.op = rec.op, !.pc = "done", !.resp = response]

\* ---- OAuth callback: the upsert of the tokens ----
oauthCallback ==
    /\ CanBeginManage
    /\ \E exp \in {NoDate, now + 1} :
        integ' = CallbackUpsert(integ, exp)
    /\ manage' = Reply(Entered("callback"), Response(307, "none", {}))
    /\ Began
    /\ UNCHANGED <<extract, users, now, proc, hist, query>>

\* ---- POST /api/integrations/supabase/select ----
SelectRequests ==
    {[authed |-> FALSE, json |-> TRUE, projectId |-> "p1",
      projectName |-> NoName],
     [authed |-> TRUE, json |-> FALSE, projectId |-> "p1",
      projectName |-> NoName],
     [authed |-> TRUE, json |-> TRUE, projectId |-> Null,
      projectName |-> NoName]}
    \cup {[authed |-> TRUE, json |-> TRUE, projectId |-> p,
           projectName |-> n] : p \in Projects, n \in ProjectNames}

selectProject_request ==
    /\ CanBeginManage
    /\ \E r \in SelectRequests :
        LET rec == [Entered("select") EXCEPT
                        !.projectId = r.projectId,
                        !.projectName = r.projectName]
        IN manage' =
            IF ~r.authed
            THEN Reply(rec, Response(401, "Unauthorized", {}))
            ELSE IF ~r.json
            THEN Reply(rec, Response(400, "Invalid request body", {}))
            ELSE IF ~Truthy(r.projectId)
            THEN Reply(rec, Response(400, "projectId is required", {}))
            ELSE IF ~integ.exists \/ ~Truthy(integ.accessToken)
            THEN Reply(rec, Response(400, "Supabase account not connected", {}))
            ELSE [rec EXCEPT !.pc = "keys"]
    /\ Began
    /\ UNCHANGED <<extract, users, now, proc, hist, integ, query>>

\* The key lists the Management API may hold for a project.
KeyLists ==
    {[anon |-> TRUE, service |-> TRUE, db |-> TRUE],
     [anon |-> TRUE, service |-> TRUE, db |-> FALSE],
     [anon |-> TRUE, service |-> FALSE, db |-> TRUE],
     [anon |-> FALSE, service |-> TRUE, db |-> TRUE]}

\* The 500 of the route's catch block: the message of the error as error,
\* String(error) as details.
SelectFailure(quoted) ==
    Response(500, "thrown", Details("error", quoted)
                              \cup Details("details", quoted))

\* fetchSupabaseProjectCredentials answers or throws.
selectProject_keys ==
    /\ ManageAt("select", "keys")
    /\ \/ \E o \in ProviderOutcomes :
            /\ o.threw \/ ~IsOk(o.status)
            /\ manage' = Reply(manage, SelectFailure(
                    IF o.threw THEN {"fetch failed"}
                    ELSE {"Failed to fetch Supabase API keys",
                          "provider error body"}))
       \/ \E k \in KeyLists :
            manage' = [manage EXCEPT
                !.pc = "update",
                !.creds = fetchSupabaseProjectCredentials(
                            manage.projectId, k.anon, k.service, k.db)]
    /\ UNCHANGED <<extract, users, now, proc, opsStarted, hist, integ, query>>

\* The store checks the type of every argument of a statement against the
\* column's type: selectedProjectName is an optional string.
StoreAccepts(projectName) == projectName.kind \in {"absent", "string"}

\* The message of the store client's validation error. The client's error
\* format is set where the client is constructed: the minimal format names
\* the rejected argument, the other formats print the statement with all
\* its arguments.
ErrorFormats == {"minimal", "pretty"}
ValidationErrorText(format, creds, projectName) ==
    IF format = "minimal"
    THEN {"Invalid value provided"}
    ELSE {"Invalid value provided", projectName.text}
         \cup ({creds.projectRef, creds.apiUrl, creds.anonKey,
                creds.serviceRoleKey, creds.dbUrl} \ {Null})

\* The update of upsertSupabaseCredentialsForUser and the response.
selectProject_update ==
    /\ ManageAt("select", "update")
    /\ IF ~integ.exists
       THEN /\ manage' = Reply(manage,
                            SelectFailure({"Record to update not found"}))
            /\ UNCHANGED integ
       ELSE IF ~StoreAccepts(manage.projectName)
       THEN /\ \E format \in ErrorFormats :
                manage' = Reply(manage, SelectFailure(
                    ValidationErrorText(format, manage.creds,
                                        manage.projectName)))
            /\ UNCHANGED integ
       ELSE /\ integ' = SelectData(integ, manage.creds,
                                   manage.projectName.text)
            /\ manage' = Reply(manage, Response(200, "none",
                    {<<"projectId", manage.projectId>>,
                     <<"projectName", manage.projectName.text>>,
                     <<"userId", Uid>>}))
    /\ UNCHANGED <<extract, users, now, proc, opsStarted, hist, query>>

\* ---- POST /api/integrations/supabase/deselect ----
deselectProject ==
    /\ CanBeginManage
    /\ \E authed \in BOOLEAN :
        IF ~authed
        THEN /\ manage' = Reply(Entered("deselect"),
                                Response(401, "Unauthorized", {}))
             /\ UNCHANGED integ
        ELSE IF ~integ.exists
        THEN /\ manage' = Reply(Entered("deselect"),
                                Response(500, "Internal server error", {}))
             /\ UNCHANGED integ
        ELSE /\ integ' = DeselectData(integ)
             /\ manage' = Reply(Entered("deselect"),
                                Response(200, "none", {<<"userId", Uid>>}))
    /\ Began
    /\ UNCHANGED <<extract, users, now, proc, hist, query>>

\* ---- GET /api/integrations/supabase/credentials ----
CredentialsBody(row) ==
    {<<"projectRef", row.supabaseProjectRef>>,
     <<"projectName", row.selectedProjectName>>,
     <<"apiUrl", row.supabaseApiUrl>>,
     <<"anonKey", row.supabaseAnonKey>>}

getCredentials ==
    /\ CanBeginManage
    /\ \E authed \in BOOLEAN :
        manage' = Reply(Entered("credentials"),
            IF ~authed
            THEN Response(401, "Unauthorized", {})
            ELSE IF ~integ.exists
            THEN Response(404, "Supabase integration not connected", {})
            ELSE IF \/ ~Truthy(integ.supabaseProjectRef)
                    \/ ~Truthy(integ.supabaseApiUrl)
                    \/ ~Truthy(integ.supabaseAnonKey)
            THEN Response(400, "Supabase project not fully configured", {})
            ELSE Response(200, "none", CredentialsBody(integ)))
    /\ Began
    /\ UNCHANGED <<extract, users, now, proc, hist, integ, query>>

\* ---- GET /api/integrations/supabase/diagnose ----
DiagnoseBody(row, tokenErrorMsg) ==
    {<<"selectedProject.id", row.selectedProjectId>>,
     <<"selectedProject.name", row.selectedProjectName>>,
     <<"selectedProject.ref", row.supabaseProjectRef>>,
     <<"hasCredentials.apiUrl",
       IF Truthy(row.supabaseApiUrl) THEN "true" ELSE "false">>,
     <<"hasCredentials.anonKey",
       IF Truthy(row.supabaseAnonKey) THEN "true" ELSE "false">>,
     <<"hasCredentials.serviceRole",
       IF Truthy(row.supabaseServiceRole) THEN "true" ELSE "false">>,
     <<"tokenValidation.errorMessage", tokenErrorMsg>>}

diagnose ==
    /\ CanBeginManage
    /\ \E authed \in BOOLEAN, o \in ProviderOutcomes :
        manage' = Reply(Entered("diagnose"),
            IF ~authed
            THEN Response(401, "Unauthorized", {})
            ELSE IF ~integ.exists
            THEN Response(200, "not_connected", {})
            ELSE Response(200, "none", DiagnoseBody(integ,
                    IF o.threw THEN "fetch failed"
                    ELSE IF IsOk(o.status) THEN ""
                    ELSE "Supabase API returned status")))
    /\ Began
    /\ UNCHANGED <<extract, users, now, proc, hist, integ, query>>

\* ------------------------------------------------------------------------
\* extractDatabaseQueries (src/inngest/db-query-handler.ts)
\* ------------------------------------------------------------------------
\* The input is a sequence of pieces of text, each standing for its kind:
\*   "text"   nothing that names the query route,
\*   "fetch"  fetch('/api/db/query', {method: 'POST',
\*              body: JSON.stringify({...})}),
\*   "await"  the same call behind `await`,
\*   "bare"   '/api/db/query' followed by JSON.stringify({...}) outside a
\*            fetch call.
MaxCodeLen == 2
MaxQueries == 3

Pieces == {"text", "fetch", "await", "bare"}

Codes == UNION {[1 .. n -> Pieces] : n \in 0 .. MaxCodeLen}

\* The three regular expressions, in the order of the array, with the
\* pieces each one matches and its g flag.
Patterns == 1 .. 3

PatternMatches(k, piece) ==
    CASE k = 1 -> piece \in {"fetch", "await"}
      [] k = 2 -> piece = "await"
      [] k = 3 -> piece \in {"fetch", "await", "bare"}

IsGlobal(k) == k \in {1, 2}

ExtractIdle ==
    [pc |-> "idle", code |-> <<>>, pattern |-> 1, lastIndex |-> 0,
     queries |-> <<>>, result |-> {}]

\* pattern.exec(code): the search starts at lastIndex for a pattern with
\* the g flag and at the start of the input for one without; the result
\* is the first piece that matches, 0 (null) if there is none.
Exec(k, code, lastIndex) ==
    LET from == IF IsGlobal(k) THEN lastIndex ELSE 0
        hits == {i \in from + 1 .. Len(code) : PatternMatches(k, code[i])}
    IN  IF hits = {} THEN 0
        ELSE CHOOSE i \in hits : \A j \in hits : i <= j

\* queries.push, for a match of pattern k at piece i: fullMatch is the
\* text that pattern matched there. The list is kept up to MaxQueries
\* entries.
Push(queries, k, i) ==
    IF Len(queries) < MaxQueries
    THEN Append(queries, [pattern |-> k, at |-> i])
    ELSE queries

\* One evaluation of the while condition, with the loop body when there
\* is a match, and the move to the next pattern when there is none.
extract_exec ==
    /\ extract.pc = "loop"
    /\ LET k == extract.pattern
           i == Exec(k, extract.code, extract.lastIndex)
       IN  extract' =
             IF i # 0
             THEN [extract EXCEPT
                     !.queries = Push(@, k, i),
                     !.lastIndex = IF IsGlobal(k) THEN i ELSE @]
             ELSE IF k < 3
             THEN [extract EXCEPT !.pattern = k + 1, !.lastIndex = 0]
             ELSE [extract EXCEPT !.pc = "dedupe", !.lastIndex = 0]
    /\ UNCHANGED <<users, now, proc, opsStarted, hist, integ, query, manage>>

\* The duplicates (same fullMatch) are removed and the list is returned.
extract_return ==
    /\ extract.pc = "dedupe"
    /\ extract' = [extract EXCEPT
                     !.pc = "done",
                     !.result = {extract.queries[i] :
                                   i \in 1 .. Len(extract.queries)}]
    /\ UNCHANGED <<users, now, proc, opsStarted, hist, integ, query, manage>>

\* ------------------------------------------------------------------------
\* The proxy's initial states and next-state relation
\* ------------------------------------------------------------------------
InitIntegrations ==
    {NoIntegration,
     CallbackUpsert(NoIntegration, NoDate),
     CallbackUpsert(NoIntegration, 0),
     SelectData(CallbackUpsert(NoIntegration, NoDate),
                fetchSupabaseProjectCredentials("p1", TRUE, TRUE, TRUE),
                "Shop")}

\* ------------------------------------------------------------------------
\* Initial state and next-state relation
\* ------------------------------------------------------------------------
InitRows ==
    {NoRow} \cup {[DefaultRow(0) EXCEPT !.credits = c] : c \in InitCredits}

Init ==
    /\ users \in [UserIds -> InitRows]
    /\ now = 0
    /\ proc = [p \in Procs |-> IdleRec]
    /\ opsStarted = 0
    /\ hist = [u \in UserIds |-> [base |-> Snapshot(users[u]), n |-> 0]]
    /\ integ = NoIntegration
    /\ query = QueryIdle
    /\ manage = ManageIdle
    /\ extract = ExtractIdle

\* The proxy starts from any state of the integration, next to an account
\* with the default balance.
ProxyInit ==
    /\ users = [u \in UserIds |-> DefaultRow(0)]
    /\ now = 1
    /\ proc = [p \in Procs |-> IdleRec]
    /\ opsStarted = 0
    /\ hist = [u \in UserIds |-> [base |-> Snapshot(users[u]), n |-> 0]]
    /\ integ \in InitIntegrations
    /\ query = QueryIdle
    /\ manage = ManageIdle
    /\ extract = ExtractIdle

\* The library calls on the ledger.
Next ==
    \/ Tick
    \/ \E p \in Procs :
        \/ consumeCredits_call(p)
        \/ consumeCredits_find(p)
        \/ consumeCredits_update(p)
        \/ resetMonthlyTokens(p)
        \/ initializeUserCredits(p)
        \/ initializeUserOnSignup_find(p)
        \/ initializeUserOnSignup_upsert(p)
        \/ initializeUserOnSignup_refind(p)
        \/ upgradeUserToPro(p)
        \/ downgradeUserToFree(p)
        \/ renewSubscription(p)
        \/ grantBonusCredits(p)
        \/ checkSubscriptionExpiry_find(p)
        \/ checkSubscriptionExpiry_downgrade(p)

\* The gated requests, next to the calls that move the balance under them.
GateNext ==
    \E p \in Procs :
        \/ startWorkflow_request(p)
        \/ startWorkflow_check(p)
        \/ startWorkflow_prompt(p)
        \/ startWorkflow_find(p)
        \/ startWorkflow_update(p)
        \/ startWorkflow_send(p)
        \/ validateCredits_call(p)
        \/ validateCredits_check(p)
        \/ validateCredits_find(p)
        \/ validateCredits_update(p)
        \/ validateCredits_action(p)
        \/ consumeCredits_call(p)
        \/ consumeCredits_find(p)
        \/ consumeCredits_update(p)
        \/ downgradeUserToFree(p)

\* The query proxy and the requests that manage the integration.
ProxyNext ==
    \/ oauthCallback
    \/ dbQuery_request
    \/ dbQuery_integration
    \/ dbQuery_response
    \/ supabaseQuery_request
    \/ supabaseQuery_integration
    \/ supabaseQuery_response
    \/ selectProject_request
    \/ selectProject_keys
    \/ selectProject_update
    \/ deselectProject
    \/ getCredentials
    \/ diagnose

\* The two reads of the ledger, next to the calls that move the balance.
ReadNext ==
    \E p \in Procs :
        \/ checkUserCredits(p)
        \/ getUsageStatus(p)
        \/ consumeCredits_call(p)
        \/ consumeCredits_find(p)
        \/ consumeCredits_update(p)
        \/ grantBonusCredits(p)
        \/ upgradeUserToPro(p)

\* A run of the extractor on any input.
ExtractInit ==
    /\ users = [u \in UserIds |-> DefaultRow(0)]
    /\ now = 0
    /\ proc = [p \in Procs |-> IdleRec]
    /\ opsStarted = 0
    /\ hist = [u \in UserIds |-> [base |-> Snapshot(users[u]), n |-> 0]]
    /\ integ = NoIntegration
    /\ query = QueryIdle
    /\ manage = ManageIdle
    /\ \E code \in Codes :
         extract = [ExtractIdle EXCEPT !.pc = "loop", !.code = code]

ExtractNext ==
    \/ extract_exec
    \/ extract_return

\* A subscribed account (the row upgradeUserToPro wrote at day 0) with
\* the calls that read and move its expiry date.
ExpiryInit ==
    /\ \E d \in DurationDays :
         users = [u \in UserIds |-> UpgradeData(DefaultRow(0), 0, d)]
    /\ now = 0
    /\ proc = [p \in Procs |-> IdleRec]
    /\ opsStarted = 0
    /\ hist = [u \in UserIds |-> [base |-> Snapshot(users[u]), n |-> 0]]
    /\ integ = NoIntegration
    /\ query = QueryIdle
    /\ manage = ManageIdle
    /\ extract = ExtractIdle

ExpiryNext ==
    \/ Tick
    \/ \E p \in Procs :
        \/ checkSubscriptionExpiry_find(p)
        \/ checkSubscriptionExpiry_downgrade(p)
        \/ renewSubscription(p)
        \/ upgradeUserToPro(p)

Spec == Init /\ [][Next]_vars

ExpirySpec == ExpiryInit /\ [][ExpiryNext]_vars

\* The loop is not suspended: the function has no await.
ExtractSpec == ExtractInit /\ [][ExtractNext]_vars /\ WF_vars(ExtractNext)

ReadSpec == Init /\ [][ReadNext]_vars

ProxySpec == ProxyInit /\ [][ProxyNext]_vars

GateSpec == Init /\ [][GateNext]_vars

\* ------------------------------------------------------------------------
\* Properties
\* ------------------------------------------------------------------------
\* The step with which p makes its call of o (the call's number is new).
Calls(p, o) ==
    /\ opsStarted' = opsStarted + 1
    /\ proc'[p].seq = opsStarted'
    /\ proc'[p].op = o

\* p moves from position `from` of call o.
Leaves(p, o, from) ==
    /\ At(p, o, from)
    /\ proc'[p].pc # from

ConsumeDone(p) == proc[p].op = "consumeCredits" /\ proc[p].pc = "done"

\* C1: no double-spend. Two consumeCredits calls made while the stored
\* balance is 1 (so both are in flight before either has written) end with
\* exactly one success and one insufficient-credits failure, and with a
\* stored balance of 0.
C1_NoDoubleSpend ==
    \A p, q \in Procs :
        ( /\ p # q
          /\ ConsumeDone(p) /\ ConsumeDone(q)
          /\ proc[p].call = [valid |-> TRUE, credits |-> 1]
          /\ proc[q].call = [valid |-> TRUE, credits |-> 1] )
        => /\ {proc[p].outcome, proc[q].outcome} = {"ok", "insufficient"}
           /\ users[Uid].credits = 0

\* C2: the stored balance of every account is never negative.
C2_BalanceNonNegative ==
    \A u \in UserIds : users[u].exists => users[u].credits >= 0

\* C3: consume accounting. After n successful consumeCredits calls since
\* the last write of another kind (or since the start), the balance is the
\* balance of then minus n, and both usage counters are those of then plus
\* n * TOKENS_PER_CREDIT.
C3_ConsumeAccounting ==
    \A u \in UserIds :
        (users[u].exists /\ hist[u].base.exists) =>
            /\ users[u].credits = hist[u].base.credits - hist[u].n
            /\ users[u].totalTokensUsed =
                 hist[u].base.totalTokensUsed + hist[u].n * TOKENS_PER_CREDIT
            /\ users[u].monthlyTokensUsed =
                 hist[u].base.monthlyTokensUsed + hist[u].n * TOKENS_PER_CREDIT

\* Two consumes have succeeded in a row.
C3_Witness ==
    /\ users[Uid].exists
    /\ hist[Uid].n >= 2
    /\ users[Uid].totalTokensUsed = 2 * TOKENS_PER_CREDIT

\* C4: a consumeCredits whose read finds a stored balance below 1 ends
\* with the insufficient-credits error in that very step and writes
\* nothing: the whole User table is the same after the step; and a call
\* that ended with that error has not consumed.
C4_InsufficientNoMutation ==
    [][\A p \in Procs :
         /\ ( Leaves(p, "consumeCredits", "consume_find")
              /\ Exists(Uid) /\ users[Uid].credits < 1 )
            => /\ proc'[p].pc = "done"
               /\ proc'[p].outcome = "insufficient"
               /\ ~proc'[p].consumed
               /\ users' = users
         /\ ( proc[p].outcome = "insufficient" /\ Leaves(p, proc[p].op, proc[p].pc)
              /\ proc'[p].outcome = "insufficient" )
            => users' = users]_vars

\* From a balance of 1: one consume has succeeded, the next has failed, and
\* the balance is 0 with one credit's worth of tokens counted.
C4_Witness ==
    \E p, q \in Procs :
        /\ ConsumeDone(p) /\ proc[p].outcome = "ok" /\ proc[p].seq = 1
        /\ ConsumeDone(q) /\ proc[q].outcome = "insufficient"
        /\ proc[q].seq = 2
        /\ hist[Uid].base.credits = 1 /\ hist[Uid].n = 1
        /\ users[Uid].credits = 0
        /\ users[Uid].totalTokensUsed = TOKENS_PER_CREDIT

Keys(m) == {m.entries[i].key : i \in 1 .. Len(m.entries)}
Items(l) == {l.items[i] : i \in 1 .. Len(l.items)}

\* The fields of a request body the route reads for an operation.
FieldsRead(endpoint, operation) ==
    IF endpoint = "db"
    THEN CASE operation = "select" -> {"select", "filters", "orderBy"}
           [] operation = "insert" -> {"data", "returning"}
           [] operation = "update" -> {"data", "filters", "returning"}
           [] operation = "delete" -> {"filters", "returning"}
           [] OTHER -> {}
    ELSE CASE operation = "insert" -> {"data"}
           [] operation = "update" -> {"select", "filters", "data"}
           [] operation \in {"query", "delete"} -> {"select", "filters"}
           [] OTHER -> {}

\* The table and every key of the fields the request's operation uses.
RequestIdentifiers(endpoint, q) ==
    LET read == FieldsRead(endpoint, q.operation)
    IN  {q.table}
        \cup (IF "select" \in read THEN Items(q.select) ELSE {})
        \cup (IF "filters" \in read THEN Keys(q.filters) ELSE {})
        \cup (IF "data" \in read THEN Keys(q.data) ELSE {})
        \cup (IF "returning" \in read THEN Items(q.returning) ELSE {})
        \cup (IF "orderBy" \in read /\ q.orderBy.present
              THEN {q.orderBy.column} ELSE {})

\* C6: mandatory filters. Every PATCH or DELETE the proxy sends carries at
\* least one filter predicate in its URL, and an update or delete request
\* whose filters are absent or empty issues no call.
C6_MandatoryFilters ==
    query.pc = "fetch" =>
        /\ query.sent.method \in {"PATCH", "DELETE"} =>
                Len(query.sent.filters) >= 1
        /\ query.payload.operation \in {"update", "delete"} =>
                ~NoFilters(query.payload)

\* C7: identifier whitelist. A call is issued only for a request whose
\* table and whose every key in select, filters, data, returning and
\* orderBy.column matches [A-Za-z_][A-Za-z0-9_]*.
C7_IdentifierWhitelist ==
    query.pc = "fetch" =>
        \A id \in RequestIdentifiers(query.endpoint, query.payload) :
            IsIdentifier(id)

\* C8: the service-role key stored on the Integration row is in no
\* response body of any endpoint, whatever the outcome, and a successful
\* credentials response carries projectRef, projectName, apiUrl and
\* anonKey only.
C8_ServiceRoleNeverReturned ==
    /\ \A r \in {query.resp, manage.resp} :
        \A e \in r.body :
            Truthy(integ.supabaseServiceRole) =>
                e[2] # integ.supabaseServiceRole
    /\ (manage.op = "credentials" /\ manage.resp.status = 200) =>
        {e[1] : e \in manage.resp.body} =
            {"projectRef", "projectName", "apiUrl", "anonKey"}


\* C9: idempotent initialisation. Every step of initializeUserCredits and
\* of initializeUserOnSignup taken while the account exists leaves the
\* whole User table unchanged, for either tier argument.
InitOps == {"initializeUserCredits", "initializeUserOnSignup"}

C9_IdempotentInit ==
    [][\A p \in Procs :
         ( /\ Exists(Uid)
           /\ \/ \E o \in InitOps : Calls(p, o)
              \/ Leaves(p, "initializeUserOnSignup", "signup_upsert")
              \/ Leaves(p, "initializeUserOnSignup", "signup_refind") )
         => users' = users]_vars

\* The account was created on day 1 by an initialisation as free and then
\* initialised again as pro: it still holds the free balance and tier.
C9_Witness ==
    \E p, q \in Procs :
        /\ proc[p].op \in InitOps /\ proc[p].seq = 1 /\ proc[p].arg = 0
        /\ proc[q].op \in InitOps /\ proc[q].seq = 2 /\ proc[q].arg = 1
        /\ proc[p].pc = "done" /\ proc[q].pc = "done"
        /\ users[Uid].exists
        /\ users[Uid].credits = FREE_USER_CREDITS
        /\ users[Uid].subscriptionTier = "free"
        /\ users[Uid].monthlyResetDate = 1

\* C10: tier changes overwrite the balance. The write of upgradeUserToPro
\* leaves credits = PRO_USER_CREDITS, tier pro, subscribed and an expiry of
\* now + durationDays; the write of downgradeUserToFree leaves credits =
\* FREE_USER_CREDITS, tier free, not subscribed and no expiry.
C10_TierOverwrite ==
    [][\A p \in Procs :
         /\ ( Calls(p, "upgradeUserToPro") /\ proc'[p].outcome = "ok" )
            => /\ users'[Uid].credits = PRO_USER_CREDITS
               /\ users'[Uid].subscriptionTier = "pro"
               /\ users'[Uid].isSubscribed
               /\ users'[Uid].subscriptionEndsAt = now + proc'[p].arg
         /\ ( Calls(p, "downgradeUserToFree") /\ proc'[p].outcome = "ok" )
            => /\ users'[Uid].credits = FREE_USER_CREDITS
               /\ users'[Uid].subscriptionTier = "free"
               /\ ~users'[Uid].isSubscribed
               /\ users'[Uid].subscriptionEndsAt = NoDate]_vars

\* An account that held a smaller balance was upgraded for two days as the
\* first call, then downgraded.
C10_Witness ==
    \E p, q \in Procs :
        /\ proc[p].op = "upgradeUserToPro" /\ proc[p].outcome = "ok"
        /\ proc[p].seq = 1 /\ proc[p].arg = 2
        /\ proc[q].op = "downgradeUserToFree" /\ proc[q].outcome = "ok"
        /\ proc[q].seq = 2
        /\ users[Uid].credits = FREE_USER_CREDITS

\* ------------------------------------------------------------------------
\* Properties of the subscription lifecycle
\* ------------------------------------------------------------------------
\* The account is subscribed and its expiry lies before the clock.
SubscriptionLapsed ==
    /\ Exists(Uid)
    /\ users[Uid].isSubscribed
    /\ users[Uid].subscriptionEndsAt # NoDate
    /\ users[Uid].subscriptionEndsAt < now

\* C11: lazy expiry. checkSubscriptionExpiry goes on to the downgrade
\* exactly when the row it reads is subscribed with an expiry before now;
\* otherwise it returns false in that step. The read writes nothing; the
\* downgrade leaves the account free, unsubscribed, with FREE_USER_CREDITS
\* and no expiry, and the call returns true.
C11_LazyExpiry ==
    [][\A p \in Procs :
         /\ Calls(p, "checkSubscriptionExpiry")
            => /\ users' = users
               /\ SubscriptionLapsed
                    => proc'[p].pc = "expiry_downgrade"
               /\ ~SubscriptionLapsed
                    => /\ proc'[p].pc = "done"
                       /\ proc'[p].outcome = "false"
         /\ Leaves(p, "checkSubscriptionExpiry", "expiry_downgrade")
            => /\ proc'[p].pc = "done"
               /\ proc'[p].outcome = "true"
               /\ users'[Uid].subscriptionTier = "free"
               /\ ~users'[Uid].isSubscribed
               /\ users'[Uid].credits = FREE_USER_CREDITS
               /\ users'[Uid].subscriptionEndsAt = NoDate]_vars

\* An upgrade for one day was the first call; two days later the check
\* returned true and the account is free again.
C11_Witness ==
    \E p, q \in Procs :
        /\ proc[q].op = "upgradeUserToPro" /\ proc[q].outcome = "ok"
        /\ proc[q].seq = 1 /\ proc[q].arg = 1
        /\ proc[p].op = "checkSubscriptionExpiry"
        /\ proc[p].outcome = "true" /\ proc[p].seq = 2
        /\ now = 2
        /\ users[Uid].subscriptionTier = "free"
        /\ users[Uid].credits = FREE_USER_CREDITS

\* C12: subscription state machine. Every account is free (tier free, not
\* subscribed, no expiry) or pro (tier pro, subscribed, with an expiry).
C12_SubscriptionStates ==
    \A u \in UserIds :
        users[u].exists =>
            \/ /\ users[u].subscriptionTier = "free"
               /\ ~users[u].isSubscribed
               /\ users[u].subscriptionEndsAt = NoDate
            \/ /\ users[u].subscriptionTier = "pro"
               /\ users[u].isSubscribed
               /\ users[u].subscriptionEndsAt # NoDate

\* C13: grantBonusCredits adds exactly a positive amount to the balance,
\* and fails without writing when the amount is zero or negative.
C13_GrantValidated ==
    [][\A p \in Procs :
         ( Calls(p, "grantBonusCredits") /\ Exists(Uid) )
            => IF proc'[p].arg > 0
                 THEN /\ proc'[p].outcome = "ok"
                      /\ users'[Uid].credits =
                            users[Uid].credits + proc'[p].arg
                 ELSE /\ proc'[p].outcome = "invalid"
                      /\ users' = users]_vars

\* C14: renewSubscription sets the expiry to now + durationDays and leaves
\* every other stored field of the account as it was.
C14_RenewFrame ==
    [][\A p \in Procs :
         ( Calls(p, "renewSubscription") /\ Exists(Uid) )
            => /\ proc'[p].outcome = "ok"
               /\ users' = [users EXCEPT
                    ![Uid].subscriptionEndsAt = now + proc'[p].arg]]_vars

\* A subscription bought on day 0 for one day was renewed on day 1 for two
\* days: the balance is still the one of the upgrade.
C14_Witness ==
    \E p, q \in Procs :
        /\ proc[q].op = "upgradeUserToPro" /\ proc[q].outcome = "ok"
        /\ proc[q].seq = 1
        /\ proc[p].op = "renewSubscription" /\ proc[p].outcome = "ok"
        /\ proc[p].seq = 2 /\ proc[p].arg = 2
        /\ now = 1
        /\ users[Uid].subscriptionEndsAt = 3
        /\ users[Uid].credits = PRO_USER_CREDITS

\* C15: resetMonthlyTokens sets monthlyTokensUsed to 0 and monthlyResetDate
\* to now and leaves every other field as it was; and the update of a
\* consumeCredits that runs next to it still takes one credit and adds
\* TOKENS_PER_CREDIT to the lifetime counter of the row as stored.
C15_ResetFrame ==
    [][\A p \in Procs :
         /\ ( Calls(p, "resetMonthlyTokens") /\ Exists(Uid) )
            => /\ proc'[p].outcome = "ok"
               /\ users' = [users EXCEPT
                    ![Uid].monthlyTokensUsed = 0,
                    ![Uid].monthlyResetDate = now]
         /\ ( Leaves(p, "consumeCredits", "consume_update")
              /\ proc'[p].outcome = "ok" )
            => /\ users'[Uid].credits = users[Uid].credits - 1
               /\ users'[Uid].totalTokensUsed =
                    users[Uid].totalTokensUsed + TOKENS_PER_CREDIT]_vars

\* A consumeCredits was called first, the reset ran before its update: the
\* credit is taken, the lifetime counter holds it and the month starts
\* with it.
C15_Witness ==
    \E p, q \in Procs :
        /\ proc[p].op = "consumeCredits" /\ proc[p].outcome = "ok"
        /\ proc[p].seq = 1
        /\ proc[q].op = "resetMonthlyTokens" /\ proc[q].outcome = "ok"
        /\ proc[q].seq = 2
        /\ hist[Uid].n = 1
        /\ users[Uid].monthlyTokensUsed = TOKENS_PER_CREDIT
        /\ users[Uid].totalTokensUsed = TOKENS_PER_CREDIT

SupportedOperations == {"select", "insert", "update", "delete"}

MethodOf ==
    [select |-> "GET", insert |-> "POST", update |-> "PATCH",
     delete |-> "DELETE"]

\* The handler leaves the step that validates the body.
Validates == query.pc = "integration" /\ query'.pc # "integration"

\* C17: operation literals. A request whose operation is none of select,
\* insert, update, delete is answered without an outbound call, and a
\* call is issued only for one of the four, with the method of its
\* executor.
C17_OperationLiterals ==
    [][Validates =>
         /\ query.payload.operation \notin SupportedOperations
            => /\ query'.pc = "done"
               /\ ~query'.sent.valid
         /\ query'.pc = "fetch"
            => /\ query.payload.operation \in SupportedOperations
               /\ query'.sent.method = MethodOf[query.payload.operation]]_vars

\* C18: limit cap. A call for a select is issued only when the limit, if
\* present, is a positive integer of at most 1000, and it carries that
\* limit unchanged.
C18_LimitCap ==
    ( query.pc = "fetch" /\ query.sent.method = "GET"
      /\ query.payload.limit.present )
        => /\ query.payload.limit.n >= 1
           /\ query.payload.limit.n <= MaxLimit
           /\ query.sent.limit = query.payload.limit

\* The entries of the fields the operation of the request in flight uses.
UsedEntries(field) ==
    IF field \in FieldsRead(query.endpoint, query.payload.operation)
    THEN {query.payload[field].entries[i] :
            i \in 1 .. Len(query.payload[field].entries)}
    ELSE {}

\* C19: scalar values. A call is issued only for a request whose filter
\* and data values are all strings, numbers, booleans or null, and every
\* filter of the request is a predicate of the call.
C19_ScalarValues ==
    query.pc = "fetch" =>
        /\ \A e \in UsedEntries("filters") \cup UsedEntries("data") :
                e.kind \in {"string", "number", "boolean", "null"}
        /\ "filters" \in FieldsRead(query.endpoint, query.payload.operation)
            => Len(query.sent.filters) = Len(query.payload.filters.entries)

\* C20: data is mandatory. A POST or PATCH is sent only for an insert or
\* update whose data is present and has at least one entry.
C20_DataNonEmpty ==
    ( query.pc = "fetch" /\ query.sent.method \in {"POST", "PATCH"} )
        => /\ query.payload.data.present
           /\ Len(query.payload.data.entries) >= 1

\* ------------------------------------------------------------------------
\* Properties of the backend selection
\* ------------------------------------------------------------------------
\* The user's integration has no selected project.
Unselected == ~integ.exists \/ integ.selectedProjectId = Null

\* A step in which a query-proxy request arrives.
QueryArrives == query.pc \in {"idle", "done"} /\ query' # query

\* C21: no backend selected. A query-proxy request that arrives while the
\* user's integration has no selected project is answered at once, with
\* 400 "No Supabase project selected" (401 when the caller is not signed
\* in), and no outbound call is issued for it.
C21_NoBackendSelected ==
    [][( QueryArrives /\ Unselected )
         => /\ query'.pc = "done"
            /\ ~query'.sent.valid
            /\ \/ /\ query'.resp.status = 400
                  /\ query'.resp.error = "No Supabase project selected"
               \/ /\ query'.resp.status = 401
                  /\ query'.resp.error = "Unauthorized"]_vars

\* A request was rejected after a deselect: the row still holds the
\* credentials of the project that was selected before.
C21_Witness ==
    /\ integ.exists
    /\ integ.selectedProjectId = Null
    /\ integ.supabaseProjectRef # Null
    /\ manage.op = "deselect"
    /\ query.pc = "done"
    /\ query.resp.error = "No Supabase project selected"

\* C22: deselect clears the credentials. Once POST deselect has succeeded,
\* and until the next integration request, the stored project ref, API
\* URL, anon key and service-role key of the integration are absent.
C22_DeselectClearsCredentials ==
    ( manage.op = "deselect" /\ manage.resp.status = 200 )
        => /\ integ.selectedProjectId = Null
           /\ integ.supabaseProjectRef = Null
           /\ integ.supabaseApiUrl = Null
           /\ integ.supabaseAnonKey = Null
           /\ integ.supabaseServiceRole = Null

\* ------------------------------------------------------------------------
\* Properties of the credit gate under concurrency and failure
\* ------------------------------------------------------------------------
\* C23: insufficient credits is a 429. Whenever start-workflow finds the
\* balance exhausted, at its checkUserCredits or at the read of its
\* consumeCredits, the request is answered with status 429.
C23_InsufficientIs429 ==
    [][\A p \in Procs :
         ( /\ \/ Leaves(p, "startWorkflow", "sw_check")
              \/ Leaves(p, "startWorkflow", "consume_find")
           /\ Exists(Uid)
           /\ users[Uid].credits <= 0 )
            => /\ proc'[p].pc = "done"
               /\ proc'[p].outcome = "http429"]_vars

\* C24: consume is all-or-nothing. The write of consumeCredits either
\* succeeds, and then the balance drops by one and both usage counters
\* rise by TOKENS_PER_CREDIT in the same step, or fails, and then the
\* call reports the failure and the account is unchanged.
C24_ConsumeAllOrNothing ==
    [][\A p \in Procs :
         ( Leaves(p, "consumeCredits", "consume_update") /\ Exists(Uid) )
            => \/ /\ proc'[p].consumed
                  /\ proc'[p].outcome = "ok"
                  /\ users'[Uid].credits = users[Uid].credits - 1
                  /\ users'[Uid].totalTokensUsed =
                        users[Uid].totalTokensUsed + TOKENS_PER_CREDIT
                  /\ users'[Uid].monthlyTokensUsed =
                        users[Uid].monthlyTokensUsed + TOKENS_PER_CREDIT
               \/ /\ ~proc'[p].consumed
                  /\ proc'[p].outcome = "storeError"
                  /\ users' = users]_vars

\* One call's write failed and another's succeeded.
C24_Witness ==
    \E p, q \in Procs :
        /\ ConsumeDone(p) /\ proc[p].outcome = "storeError"
        /\ ~proc[p].consumed
        /\ ConsumeDone(q) /\ proc[q].outcome = "ok" /\ proc[q].consumed
        /\ users[Uid].credits = hist[Uid].base.credits - 1

\* C25: automatic rollback. A gated request that consumed a credit and
\* then failed to run its action (the action threw, or the workflow event
\* could not be sent), and that was the only call on the account, leaves
\* the balance and both usage counters as they were before the request.
C25_RollbackOnFailure ==
    \A p \in Procs :
        ( /\ proc[p].op \in {"validateCredits", "startWorkflow"}
          /\ proc[p].pc = "done"
          /\ proc[p].consumed /\ ~proc[p].started
          /\ proc[p].seq = 1 /\ proc[p].call.valid
          /\ \A q \in Procs \ {p} : proc[q].op = "none" )
            => /\ users[Uid].credits = proc[p].call.credits
               /\ users[Uid].totalTokensUsed = hist[Uid].base.totalTokensUsed
               /\ users[Uid].monthlyTokensUsed =
                     hist[Uid].base.monthlyTokensUsed

\* ------------------------------------------------------------------------
\* Properties of the proxy's checks, credentials and error mapping
\* ------------------------------------------------------------------------
\* The body of the request in flight passes the checks its route makes on
\* the body alone.
PayloadAccepted ==
    /\ query.json
    /\ IF query.endpoint = "db"
       THEN QueryPayloadSchema(query.payload)
       ELSE /\ Len(query.payload.table) > 0
            /\ query.payload.operation \in
                  {"query", "insert", "update", "delete"}
            /\ ~( query.payload.operation \in {"update", "delete"}
                  /\ NoFilters(query.payload) )

\* C26: validation precedes storage and network access. A request gets
\* past the first read of the integration store, to the second read,
\* only if its body is valid.
C26_ValidationFirst ==
    query.pc = "integration" => PayloadAccepted

\* C27: privileged credential. Every outbound data call is authorised
\* with the service-role key stored in the user's integration and is
\* addressed at the stored API URL, for the table of the request.
C27_ServiceRoleCredential ==
    [][( Validates /\ query'.pc = "fetch" )
         => /\ integ.supabaseServiceRole # Null
            /\ query'.sent.auth = integ.supabaseServiceRole
            /\ query'.sent.host = integ.supabaseApiUrl
            /\ query'.sent.table = encodeURIComponent(query.payload.table)]_vars

\* C28: transport errors. The answer to a request whose outbound call was
\* issued carries either the status the provider answered with, or, when
\* the connection failed, a status that is not a 4xx.
C28_TransportError ==
    [][( query.pc = "fetch" /\ query'.pc = "done" )
         => \/ query'.resp.status \in ProviderStatuses
            \/ query'.resp.status >= 500]_vars

\* ------------------------------------------------------------------------
\* Properties of the query extractor
\* ------------------------------------------------------------------------
\* C29: termination. On every input extractDatabaseQueries returns.
C29_ExtractTerminates == <>(extract.pc = "done")

\* ------------------------------------------------------------------------
\* Properties of the expiry check under concurrency
\* ------------------------------------------------------------------------
\* C30: no downgrade of a renewed subscription. The downgrade that
\* checkSubscriptionExpiry writes lands only on a row whose subscription
\* is expired at the moment of the write.
C30_NoStaleDowngrade ==
    [][\A p \in Procs :
         ( /\ Leaves(p, "checkSubscriptionExpiry", "expiry_downgrade")
           /\ Exists(Uid)
           /\ proc'[p].outcome = "true" )
            => HasExpired(users[Uid], now)]_vars

====
